---- MODULE Spec2Model ----
(***************************************************************************)
(* Warm-transfer orchestration of src/warm_transfer.py: the SessionManager *)
(* state machine (customer leg, supervisor leg, hold audio), the awaited   *)
(* steps of start_transfer / merge_calls / set_supervisor_failed as        *)
(* separate atomic steps of the asyncio event loop, and the asynchronous   *)
(* room notifications that interleave with them.                           *)
(*                                                                         *)
(* A step is the code a coroutine runs between two suspensions: nothing    *)
(* interleaves inside it.  The awaits that talk to LiveKit (room connect,  *)
(* session start, SIP dial, participant move, say) return or raise; the    *)
(* aclose() awaits suspend and return; generate_reply and the audio        *)
(* toggles are synchronous requests.  Supervisor rooms, sessions and hold  *)
(* streams are numbered by the attempt that created them.                  *)
(***************************************************************************)
EXTENDS Integers, FiniteSets, Sequences, TLC

\* number of start_transfer invocations that may pass the guard
MaxAttempts == 2
\* number of merge_calls invocations that may pass the guard
MaxMerges == 2

Attempts == 1..MaxAttempts

VARIABLES
    mgr,              \* SessionManager fields and the objects they refer to
    rooms,            \* supervisor rooms: "none" | "connecting" | "connected" | "disconnected"
    handlers,         \* supervisor rooms on which on_supervisor_room_close is registered
    customer_room,    \* customer room: teardown handler registered, delete_room() calls
    pc_transfer,      \* where the start_transfer body is suspended
    merge_tasks,      \* how many merge_calls coroutines are suspended at each await
    failed_tasks,     \* set_supervisor_failed tasks created by the disconnect handler, not yet run
    closing,          \* set_supervisor_failed coroutines suspended at supervisor_session.aclose()
    lkapi,            \* requests issued to the LiveKit API, by kind
    entry,            \* the job's entrypoint: its inputs, where it is, what it started
    history,          \* customer_session.history: the items of the chat context
    prev_convo,       \* the transcript in the instructions of the last SupervisorAgent
    mongodb           \* mongodb_helper: MONGODB_URI, _mongo_client, the clients created

vars == <<mgr, rooms, handlers, customer_room, pc_transfer, merge_tasks,
          failed_tasks, closing, lkapi, entry, history, prev_convo, mongodb>>

MergeAwaits == {"move", "say", "customer_aclose", "supervisor_aclose"}

\* no object: Python's None
None == 0

----------------------------------------------------------------------------
(* entrypoint: the job's inputs and the stretches between its awaits *)

\* an environment variable that is not set (os.getenv gives Python's None)
Unset == "None"

\* values of LIVEKIT_SUPERVISOR_PHONE_NUMBER and LIVEKIT_SIP_OUTBOUND_TRUNK
SupervisorNumbers == {Unset, "", "+12003004000"}
TrunkIds == {Unset, "ST_abcxyz"}

\* ctx.job.metadata: absent, not JSON, JSON without the key, JSON with the key
Metadata == {"", "not json", "{}", "{\"phone_number\": \"+15550100\"}"}

\* Python's truth value of a string or None
Truthy(x) == x \notin {Unset, ""}

\* lines 534-543: the phone number read from the job metadata
metadata_phone_number(md) ==
    IF ~Truthy(md) THEN Unset
    ELSE IF md = "{\"phone_number\": \"+15550100\"}" THEN "+15550100"
    ELSE Unset

\* an entrypoint that ran to its end with the supervisor number configured
EntrypointDone ==
    [ pc                      |-> "done",
      room                    |-> "call-1",
      SUPERVISOR_PHONE_NUMBER |-> "+12003004000",
      SIP_TRUNK_ID            |-> "ST_abcxyz",
      metadata                |-> "",
      phone_number            |-> Unset,
      session                 |-> "started",
      session_manager         |-> "started",
      raised                  |-> "",
      \* OutboundAgent.on_enter: whether it ran, the opening replies it
      \* requested, the instructions and the line of the last request
      entered                 |-> TRUE,
      replies                 |-> 1,
      greeting                |-> "standard",
      reply_line              |-> 338 ]

----------------------------------------------------------------------------
(* mongodb_helper: the cached client and the lookups *)

\* number of MongoClient objects that may be created
MaxClients == 5

\* values of MONGODB_URI
MongoUris == {Unset, "", "mongodb://localhost:27017"}

\* building and testing a client: MongoClient(...) raises, the ping fails
\* with ConnectionFailure, or the ping succeeds
ConnectOutcomes == {"client_raised", "ping_failed", "ok"}

\* a query: a document comes back, none does, or the query raises
QueryOutcomes == {"found", "not_found", "raised"}

\* the module after import, with MONGODB_URI read from the environment
mongodb_helper(uri) ==
    [ MONGODB_URI   |-> uri,
      _mongo_client |-> None,
      \* MongoClient objects: how many were created, which were pinged with
      \* success, which were closed
      clients       |-> 0,
      tested        |-> {},
      closed        |-> {},
      \* the last call of get_mongodb_client: what it returned or raised
      returned      |-> None,
      raised        |-> "" ]

\* the module of the call in progress
MongoInit == mongodb_helper("mongodb://localhost:27017")

\* lines 24-49: get_mongodb_client
get_mongodb_client(db, outcome) ==
    IF db._mongo_client = None
    THEN IF ~Truthy(db.MONGODB_URI)
         THEN [db EXCEPT !.returned = None, !.raised = "ValueError"]
         ELSE IF outcome = "client_raised"
         THEN [db EXCEPT !.returned = None, !.raised = "MongoClient"]
         ELSE LET client == db.clients + 1
                  cached == [db EXCEPT !.clients = client, !._mongo_client = client]
              IN  IF outcome = "ping_failed"
                  THEN [cached EXCEPT !.returned = None, !.raised = "ConnectionFailure"]
                  ELSE [cached EXCEPT !.tested = @ \cup {client},
                                      !.returned = client, !.raised = ""]
    ELSE [db EXCEPT !.returned = db._mongo_client, !.raised = ""]

\* lines 238-244: close_mongodb_connection
close_mongodb_connection(db) ==
    IF db._mongo_client # None
    THEN [db EXCEPT !.closed = @ \cup {db._mongo_client}, !._mongo_client = None]
    ELSE db

\* lines 52-113: lookup_contact_by_phone, the module after it and the contact
lookup_contact_by_phone(db, outcome, query) ==
    LET got == get_mongodb_client(db, outcome)
    IN  [ db      |-> got,
          contact |-> IF got.raised = "" /\ query = "found" THEN "contact" ELSE Unset ]

\* lines 116-147: get_chat_history, the module after it and the summary
get_chat_history(db, outcome, query) ==
    LET got == get_mongodb_client(db, outcome)
    IN  [ db      |-> got,
          summary |-> IF got.raised = "" /\ query = "found"
                      THEN "Previous conversation" ELSE Unset ]

----------------------------------------------------------------------------
(* the requests sent to the LiveKit API *)

\* line 47: the identity the supervisor's SIP participant is given
_supervisor_identity == "supervisor-sip"

\* line 95: the name of the room the supervisor is dialed into
supervisor_room_name(customer_room_name) == customer_room_name \o "-supervisor"

\* no request sent yet
NoSIPRequest ==
    [ sip_trunk_id |-> "", sip_call_to |-> "", room_name |-> "",
      participant_identity |-> "", wait_until_answered |-> FALSE ]
NoMoveRequest == [ room |-> "", identity |-> "", destination_room |-> "" ]

\* lines 144-150: the request that dials the supervisor
CreateSIPParticipantRequest(e) ==
    [ sip_trunk_id         |-> e.SIP_TRUNK_ID,
      sip_call_to          |-> e.SUPERVISOR_PHONE_NUMBER,
      room_name            |-> supervisor_room_name(e.room),
      participant_identity |-> _supervisor_identity,
      wait_until_answered  |-> TRUE ]

\* supervisor_room.name: the room the token of lines 98-110 grants, once joined
supervisor_room_joined_name(e, room_state) ==
    IF room_state \in {"connected", "disconnected"}
    THEN supervisor_room_name(e.room)
    ELSE ""

\* a move request that takes the participant from the customer room
MoveParticipantRequest_from_customer_room(e, room_state) ==
    [ room             |-> e.room,
      identity         |-> _supervisor_identity,
      destination_room |-> supervisor_room_joined_name(e, room_state) ]

\* lines 195-199: the request that moves the supervisor to the customer room
MoveParticipantRequest(e, room_state) ==
    [ room             |-> supervisor_room_joined_name(e, room_state),
      identity         |-> _supervisor_identity,
      destination_room |-> e.room ]

----------------------------------------------------------------------------
(* SupervisorAgent.__init__: the transcript of the customer conversation *)

\* longest customer history drawn
MaxHistory == 3

\* items of a chat context: messages by role, with and without text, and the
\* two items of a tool call (which carry no role)
ChatItems ==
    { [type |-> "message", role |-> "user",      content |-> <<"I am locked out">>],
      [type |-> "message", role |-> "assistant", content |-> <<"Let me check">>],
      [type |-> "message", role |-> "user",      content |-> <<>>],
      [type |-> "message", role |-> "assistant", content |-> <<>>],
      [type |-> "message", role |-> "system",    content |-> <<"You are a sales agent">>],
      [type |-> "message", role |-> "developer", content |-> <<"Be brief">>],
      [type |-> "function_call",        role |-> "", content |-> <<"transfer_to_human">>],
      [type |-> "function_call_output", role |-> "", content |-> <<"null">>] }

\* the histories a customer session can hold when the transfer starts
Histories == UNION {[1..n -> ChatItems] : n \in 0..MaxHistory}

\* the history of the call in progress
CallHistory ==
    << [type |-> "message", role |-> "system",    content |-> <<"You are a sales agent">>],
       [type |-> "message", role |-> "assistant", content |-> <<"Let me check">>],
       [type |-> "message", role |-> "user",      content |-> <<"I am locked out">>] >>

\* lines 475-477: prev_ctx.copy(...) with instructions left in the copy
ChatContext_copy_keeps_instructions(items, exclude_empty_message, exclude_instructions, exclude_function_call) ==
    LET keep(item) ==
            /\ ~(exclude_function_call
                    /\ item.type \in {"function_call", "function_call_output"})
            /\ ~(exclude_empty_message /\ item.type = "message" /\ item.content = <<>>)
    IN  SelectSeq(items, keep)

\* lines 475-477: prev_ctx.copy(...), the items each flag drops
ChatContext_copy(items, exclude_empty_message, exclude_instructions, exclude_function_call) ==
    LET keep(item) ==
            /\ ~(exclude_function_call
                    /\ item.type \in {"function_call", "function_call_output"})
            /\ ~(exclude_instructions /\ item.type = "message"
                    /\ item.role \in {"system", "developer"})
            /\ ~(exclude_empty_message /\ item.type = "message" /\ item.content = <<>>)
    IN  SelectSeq(items, keep)

\* msg.text_content: the text parts joined by newlines, None without any
RECURSIVE text_content(_)
text_content(content) ==
    IF content = <<>> THEN "None"
    ELSE IF Len(content) = 1 THEN content[1]
    ELSE content[1] \o "\n" \o text_content(Tail(content))

\* lines 478-482: the loop that appends one tagged line per item
RECURSIVE prev_convo_loop(_, _)
prev_convo_loop(acc, items) ==
    IF items = <<>> THEN acc
    ELSE prev_convo_loop(
             IF Head(items).role = "user"
             THEN acc \o "Customer: " \o text_content(Head(items).content) \o "\n"
             ELSE acc \o "Assistant: " \o text_content(Head(items).content) \o "\n",
             Tail(items))

\* lines 474-482: the transcript SupervisorAgent builds from prev_ctx
SupervisorAgent_prev_convo(prev_ctx) ==
    prev_convo_loop("", ChatContext_copy(prev_ctx, TRUE, TRUE, TRUE))

----------------------------------------------------------------------------
(* SessionManager.__init__ *)

\* the manager as its constructor leaves it, and the objects around it
SessionManagerInit ==
    /\ mgr = [ customer_status    |-> "active",
               supervisor_status  |-> "inactive",
               hold_audio_handle  |-> None,
               supervisor_session |-> None,
               supervisor_room    |-> None,
               \* customer_session: input / output audio, closed, requested speech
               input_audio        |-> TRUE,
               output_audio       |-> TRUE,
               customer_closed    |-> FALSE,
               notices            |-> 0,
               goodbyes           |-> 0,
               \* "calls merged": merge_calls runs that reached line 227
               merges             |-> 0,
               \* background_audio: streams handed out, streams still playing
               streams            |-> 0,
               playing            |-> {},
               \* supervisor AgentSession objects, by attempt: "none" | "created" |
               \* "started" | "voicemail" (started, its agent reported voicemail) | "closed"
               sessions           |-> [a \in Attempts |-> "none"] ]
    /\ rooms = [a \in Attempts |-> "none"]
    /\ handlers = {}
    /\ customer_room = [handler |-> FALSE, deleted |-> 0]
    /\ pc_transfer = "idle"
    /\ merge_tasks = [p \in MergeAwaits |-> 0]
    /\ failed_tasks = 0
    /\ closing = 0
    /\ lkapi = [connect |-> 0, session_start |-> 0, dial |-> 0, move |-> 0,
                sip_request |-> NoSIPRequest, move_request |-> NoMoveRequest]

\* a call in progress: the entrypoint has finished, the manager is fresh
Init ==
    /\ SessionManagerInit
    /\ entry = EntrypointDone
    /\ history = CallHistory
    /\ prev_convo = Unset
    /\ mongodb = MongoInit

----------------------------------------------------------------------------
(* entrypoint, from the dispatch of the job *)

\* a job is dispatched with some environment and some metadata
EntrypointInit ==
    /\ SessionManagerInit
    /\ \E sup \in SupervisorNumbers, trunk \in TrunkIds, md \in Metadata :
           entry = [ pc                      |-> "dispatched",
                     room                    |-> "call-1",
                     SUPERVISOR_PHONE_NUMBER |-> sup,
                     SIP_TRUNK_ID            |-> trunk,
                     metadata                |-> md,
                     phone_number            |-> Unset,
                     session                 |-> "none",
                     session_manager         |-> "none",
                     raised                  |-> "",
                     entered                 |-> FALSE,
                     replies                 |-> 0,
                     greeting                |-> "",
                     reply_line              |-> 0 ]
    /\ history = <<>>
    /\ prev_convo = Unset
    /\ \E uri \in MongoUris : mongodb = mongodb_helper(uri)

\* lines 522-585: the metadata is read, the session, the agent and the
\* manager are built, and session.start is awaited
entrypoint ==
    /\ entry.pc = "dispatched"
    /\ entry' = [entry EXCEPT !.phone_number = metadata_phone_number(entry.metadata),
                              !.session = "starting",
                              !.session_manager = "created",
                              !.pc = "session_start"]
    /\ UNCHANGED <<mgr, rooms, handlers, customer_room, pc_transfer, merge_tasks,
                   failed_tasks, closing, lkapi, history, prev_convo, mongodb>>

\* line 578 returned: the check of lines 588-590, then session_manager.start
\* is awaited (line 594)
entrypoint_session_ok ==
    /\ entry.pc = "session_start"
    /\ entry' = IF ~Truthy(entry.SUPERVISOR_PHONE_NUMBER)
                THEN [entry EXCEPT !.session = "started",
                                   !.raised = "ValueError",
                                   !.pc = "raised"]
                ELSE [entry EXCEPT !.session = "started",
                                   !.session_manager = "starting",
                                   !.pc = "manager_start"]
    /\ UNCHANGED <<mgr, rooms, handlers, customer_room, pc_transfer, merge_tasks,
                   failed_tasks, closing, lkapi, history, prev_convo, mongodb>>

\* line 578 raised
entrypoint_session_raised ==
    /\ entry.pc = "session_start"
    /\ entry' = [entry EXCEPT !.session = "failed",
                              !.raised = "session.start",
                              !.pc = "raised"]
    /\ UNCHANGED <<mgr, rooms, handlers, customer_room, pc_transfer, merge_tasks,
                   failed_tasks, closing, lkapi, history, prev_convo, mongodb>>

\* line 594 returned: the background audio player is running
entrypoint_manager_ok ==
    /\ entry.pc = "manager_start"
    /\ entry' = [entry EXCEPT !.session_manager = "started", !.pc = "done"]
    /\ UNCHANGED <<mgr, rooms, handlers, customer_room, pc_transfer, merge_tasks,
                   failed_tasks, closing, lkapi, history, prev_convo, mongodb>>

\* line 594 raised
entrypoint_manager_raised ==
    /\ entry.pc = "manager_start"
    /\ entry' = [entry EXCEPT !.session_manager = "failed",
                              !.raised = "session_manager.start",
                              !.pc = "raised"]
    /\ UNCHANGED <<mgr, rooms, handlers, customer_room, pc_transfer, merge_tasks,
                   failed_tasks, closing, lkapi, history, prev_convo, mongodb>>

\* session.generate_reply called from `line` of on_enter
generate_reply(e, instructions, line) ==
    [e EXCEPT !.replies = @ + 1, !.greeting = instructions, !.reply_line = line]

\* on_enter without the reply of line 330
OutboundAgent_on_enter_silent_when_not_found(e, db, o1, q1, o2, q2) ==
    IF Truthy(e.phone_number)
    THEN LET looked == lookup_contact_by_phone(db, o1, q1)
         IN  IF Truthy(looked.contact)
             THEN LET hist == get_chat_history(looked.db, o2, q2)
                  IN  [ db    |-> hist.db,
                        entry |-> generate_reply(e, "personalized", 327) ]
             ELSE [ db |-> looked.db, entry |-> e ]
    ELSE [ db |-> db, entry |-> generate_reply(e, "standard", 338) ]

\* lines 295-338: OutboundAgent.on_enter, with the outcomes of the two
\* lookups; both lookups catch what they raise and return None, so the
\* except clause of lines 332-335 is not entered from them
OutboundAgent_on_enter(e, db, o1, q1, o2, q2) ==
    IF Truthy(e.phone_number)
    THEN LET looked == lookup_contact_by_phone(db, o1, q1)
         IN  IF Truthy(looked.contact)
             THEN LET hist == get_chat_history(looked.db, o2, q2)
                  IN  [ db    |-> hist.db,
                        entry |-> generate_reply(
                                      e,
                                      IF Truthy(hist.summary)
                                      THEN "personalized, previous conversation"
                                      ELSE "personalized",
                                      327) ]
             ELSE [ db |-> looked.db, entry |-> generate_reply(e, "standard", 330) ]
    ELSE [ db |-> db, entry |-> generate_reply(e, "standard", 338) ]

\* the session enters the agent while it starts
on_enter ==
    /\ entry.session \in {"starting", "started"}
    /\ ~entry.entered
    /\ \E o1 \in ConnectOutcomes, q1 \in QueryOutcomes,
          o2 \in ConnectOutcomes, q2 \in QueryOutcomes :
           LET after == OutboundAgent_on_enter(entry, mongodb, o1, q1, o2, q2)
           IN  /\ entry' = [after.entry EXCEPT !.entered = TRUE]
               /\ mongodb' = after.db
    /\ UNCHANGED <<mgr, rooms, handlers, customer_room, pc_transfer, merge_tasks,
                   failed_tasks, closing, lkapi, history, prev_convo>>

EntrypointNext ==
    \/ on_enter
    \/ entrypoint
    \/ entrypoint_session_ok
    \/ entrypoint_session_raised
    \/ entrypoint_manager_ok
    \/ entrypoint_manager_raised

EntrypointSpec == EntrypointInit /\ [][EntrypointNext]_vars

----------------------------------------------------------------------------
(* mongodb_helper, from the import of the module *)

\* a process imports the module with some MONGODB_URI
MongoInitial ==
    /\ SessionManagerInit
    /\ entry = EntrypointDone
    /\ history = CallHistory
    /\ prev_convo = Unset
    /\ \E uri \in MongoUris : mongodb = mongodb_helper(uri)

\* a call of get_mongodb_client
get_mongodb_client_called ==
    /\ \E outcome \in ConnectOutcomes :
           /\ mongodb' = get_mongodb_client(mongodb, outcome)
           /\ mongodb'.clients <= MaxClients
    /\ UNCHANGED <<mgr, rooms, handlers, customer_room, pc_transfer, merge_tasks,
                   failed_tasks, closing, lkapi, entry, history, prev_convo>>

\* a call of close_mongodb_connection
close_mongodb_connection_called ==
    /\ mongodb' = close_mongodb_connection(mongodb)
    /\ UNCHANGED <<mgr, rooms, handlers, customer_room, pc_transfer, merge_tasks,
                   failed_tasks, closing, lkapi, entry, history, prev_convo>>

MongoNext ==
    \/ get_mongodb_client_called
    \/ close_mongodb_connection_called

MongoSpec == MongoInitial /\ [][MongoNext]_vars

----------------------------------------------------------------------------
(* Hold audio *)

\* start_hold playing the stream with the customer audio left enabled
start_hold_keeps_audio(m) ==
    [m EXCEPT !.streams = @ + 1,
              !.playing = @ \cup {m.streams + 1},
              !.hold_audio_handle = m.streams + 1]

\* lines 240-246
start_hold(m) ==
    [m EXCEPT !.input_audio = FALSE,
              !.output_audio = FALSE,
              !.streams = @ + 1,
              !.playing = @ \cup {m.streams + 1},
              !.hold_audio_handle = m.streams + 1]

\* stop_hold stopping the stream and keeping its handle
stop_hold_keeps_handle(m) ==
    LET m1 == IF m.hold_audio_handle # None
              THEN [m EXCEPT !.playing = @ \ {m.hold_audio_handle}]
              ELSE m
    IN  [m1 EXCEPT !.input_audio = TRUE, !.output_audio = TRUE]

\* lines 232-238
stop_hold(m) ==
    LET m1 == IF m.hold_audio_handle # None
              THEN [m EXCEPT !.playing = @ \ {m.hold_audio_handle},
                             !.hold_audio_handle = None]
              ELSE m
    IN  [m1 EXCEPT !.input_audio = TRUE, !.output_audio = TRUE]

----------------------------------------------------------------------------
(* set_supervisor_failed: the part up to its only await, and the part      *)
(* after supervisor_session.aclose() returned.                             *)

\* the failure routine without its stop_hold
set_supervisor_failed_keeps_hold(m) ==
    LET m1 == [m EXCEPT !.supervisor_status = "failed", !.notices = @ + 1]
    IN  IF m1.supervisor_session # None
        THEN [m1 EXCEPT !.sessions[m1.supervisor_session] = "closed"]
        ELSE m1

\* the failure routine leaving the supervisor session open
set_supervisor_failed_leaks_session(m) ==
    LET m1 == stop_hold([m EXCEPT !.supervisor_status = "failed"])
    IN  [m1 EXCEPT !.notices = @ + 1]

set_supervisor_failed(m) ==
    LET m1 == stop_hold([m EXCEPT !.supervisor_status = "failed"])
        m2 == [m1 EXCEPT !.notices = @ + 1]
    IN  IF m2.supervisor_session # None
        THEN [m2 EXCEPT !.sessions[m2.supervisor_session] = "closed"]
        ELSE m2

set_supervisor_failed_resume(m) ==
    [m EXCEPT !.supervisor_session = None]

\* a whole call, run to completion with nothing interleaved
set_supervisor_failed_call(m) ==
    LET m1 == set_supervisor_failed(m)
    IN  IF m.supervisor_session # None THEN set_supervisor_failed_resume(m1) ELSE m1

\* the coroutine suspends at aclose() only when there is a supervisor session
Suspends(m) == IF m.supervisor_session # None THEN 1 ELSE 0

----------------------------------------------------------------------------
(* start_transfer *)

\* the guard comparing against a status value that is never assigned
start_transfer_guard_passive(m) == m.customer_status # "passive"

\* the guard of line 84
start_transfer_guard(m) == m.customer_status = "active"

\* the body started without the write of line 89
start_transfer_begin_stays_active(m) ==
    LET m1 == start_hold(m)
    IN  [m1 EXCEPT !.supervisor_room = m1.streams]

\* lines 88-117: up to the await of supervisor_room.connect
start_transfer_begin(m) ==
    LET m1 == start_hold([m EXCEPT !.customer_status = "escalated"])
    IN  [m1 EXCEPT !.supervisor_room = m1.streams]

\* the except clause parking the customer in the third declared status
start_transfer_except_passive(m) ==
    set_supervisor_failed([m EXCEPT !.customer_status = "passive"])

\* the except clause without line 157
start_transfer_except_keeps_escalated(m) ==
    set_supervisor_failed(m)

\* lines 155-158: the except clause, up to the await inside set_supervisor_failed
start_transfer_except(m) ==
    set_supervisor_failed([m EXCEPT !.customer_status = "active"])

\* a call of start_transfer, up to its first await (or its early return)
start_transfer ==
    /\ IF start_transfer_guard(mgr)
       THEN /\ mgr.streams < MaxAttempts
            /\ mgr' = start_transfer_begin(mgr)
            /\ rooms' = [rooms EXCEPT ![mgr'.supervisor_room] = "connecting"]
            /\ lkapi' = [lkapi EXCEPT !.connect = @ + 1]
            /\ pc_transfer' = "connect"
       ELSE UNCHANGED <<mgr, rooms, lkapi, pc_transfer>>
    /\ UNCHANGED <<mongodb, history, prev_convo, entry, handlers, customer_room, merge_tasks, failed_tasks, closing>>

\* the except clause taken from whichever await raised
start_transfer_raised ==
    /\ mgr' = start_transfer_except(mgr)
    /\ closing' = closing + Suspends(mgr)
    /\ pc_transfer' = "idle"

\* the connect returning without line 119: no disconnect handler registered
start_transfer_connect_ok_unregistered ==
    /\ pc_transfer = "connect"
    /\ rooms' = [rooms EXCEPT ![mgr.supervisor_room] = "connected"]
    /\ mgr' = [mgr EXCEPT !.supervisor_session = mgr.supervisor_room,
                          !.sessions[mgr.supervisor_room] = "created"]
    /\ lkapi' = [lkapi EXCEPT !.session_start = @ + 1]
    /\ pc_transfer' = "session_start"
    /\ prev_convo' = SupervisorAgent_prev_convo(history)
    /\ UNCHANGED <<mongodb, history, entry, handlers, customer_room, merge_tasks, failed_tasks,
                   closing>>

\* line 117 returned: lines 119-137, up to the await of supervisor_session.start
start_transfer_connect_ok ==
    /\ pc_transfer = "connect"
    /\ rooms' = [rooms EXCEPT ![mgr.supervisor_room] = "connected"]
    /\ handlers' = handlers \cup {mgr.supervisor_room}
    /\ mgr' = [mgr EXCEPT !.supervisor_session = mgr.supervisor_room,
                          !.sessions[mgr.supervisor_room] = "created"]
    /\ lkapi' = [lkapi EXCEPT !.session_start = @ + 1]
    /\ pc_transfer' = "session_start"
    /\ prev_convo' = SupervisorAgent_prev_convo(history)
    /\ UNCHANGED <<mongodb, history, entry, customer_room, merge_tasks, failed_tasks, closing>>

\* line 117 raised
start_transfer_connect_raised ==
    /\ pc_transfer = "connect"
    /\ rooms' = [rooms EXCEPT ![mgr.supervisor_room] = "disconnected"]
    /\ start_transfer_raised
    /\ UNCHANGED <<mongodb, history, prev_convo, entry, handlers, customer_room, merge_tasks, failed_tasks, lkapi>>

\* line 131 returned: lines 139-151, up to the await of create_sip_participant
start_transfer_session_ok ==
    /\ pc_transfer = "session_start"
    /\ mgr' = [mgr EXCEPT !.sessions[mgr.supervisor_room] =
                              IF @ = "closed" THEN "closed" ELSE "started"]
    /\ lkapi' = [lkapi EXCEPT !.dial = @ + 1,
                              !.sip_request = CreateSIPParticipantRequest(entry)]
    /\ pc_transfer' = "dial"
    /\ UNCHANGED <<mongodb, history, prev_convo, entry, rooms, handlers, customer_room, merge_tasks, failed_tasks, closing>>

\* line 131 raised
start_transfer_session_raised ==
    /\ pc_transfer = "session_start"
    /\ start_transfer_raised
    /\ UNCHANGED <<mongodb, history, prev_convo, entry, rooms, handlers, customer_room, merge_tasks, failed_tasks, lkapi>>

\* line 143 returned, the supervisor answered: lines 152-153
start_transfer_dial_ok ==
    /\ pc_transfer = "dial"
    /\ mgr' = [mgr EXCEPT !.supervisor_status = "summarizing"]
    /\ pc_transfer' = "idle"
    /\ UNCHANGED <<mongodb, history, prev_convo, entry, rooms, handlers, customer_room, merge_tasks, failed_tasks, closing,
                   lkapi>>

\* line 143 raised: rejected, unanswered or timed out
start_transfer_dial_raised ==
    /\ pc_transfer = "dial"
    /\ start_transfer_raised
    /\ UNCHANGED <<mongodb, history, prev_convo, entry, rooms, handlers, customer_room, merge_tasks, failed_tasks, lkapi>>

----------------------------------------------------------------------------
(* Supervisor room notifications and the failure routine *)

\* a connected supervisor room disconnects; the handler of line 160, if it is
\* registered on that room, creates a set_supervisor_failed task
on_supervisor_room_close ==
    \E r \in Attempts :
        /\ rooms[r] = "connected"
        /\ rooms' = [rooms EXCEPT ![r] = "disconnected"]
        /\ failed_tasks' = failed_tasks + (IF r \in handlers THEN 1 ELSE 0)
        /\ UNCHANGED <<mongodb, history, prev_convo, entry, mgr, handlers, customer_room, pc_transfer, merge_tasks,
                       closing, lkapi>>

\* the event loop runs a task created by the handler, up to its await
set_supervisor_failed_task ==
    /\ failed_tasks > 0
    /\ failed_tasks' = failed_tasks - 1
    /\ mgr' = set_supervisor_failed(mgr)
    /\ closing' = closing + Suspends(mgr)
    /\ UNCHANGED <<mongodb, history, prev_convo, entry, rooms, handlers, customer_room, pc_transfer, merge_tasks, lkapi>>

\* supervisor_session.aclose() returns inside set_supervisor_failed: line 185
set_supervisor_failed_closed ==
    /\ closing > 0
    /\ closing' = closing - 1
    /\ mgr' = set_supervisor_failed_resume(mgr)
    /\ UNCHANGED <<mongodb, history, prev_convo, entry, rooms, handlers, customer_room, pc_transfer, merge_tasks,
                   failed_tasks, lkapi>>

\* line 518: set_supervisor_failed() builds a coroutine object that is dropped
\* without await, so the manager is what it was
voicemail_detected_call(m) == m

\* SupervisorAgent.voicemail_detected, a tool of a running briefing session:
\* the set_supervisor_failed coroutine is created and never awaited, so none
\* of its body runs; the session has reported voicemail, the manager is as before
voicemail_detected ==
    /\ \E a \in Attempts :
           /\ mgr.sessions[a] = "started"
           /\ mgr' = [voicemail_detected_call(mgr) EXCEPT !.sessions[a] = "voicemail"]
    /\ UNCHANGED <<mongodb, history, prev_convo, entry, rooms, handlers, customer_room, pc_transfer, merge_tasks,
                   failed_tasks, closing, lkapi>>

----------------------------------------------------------------------------
(* merge_calls *)

\* the guard rejecting only a leg that already failed
merge_calls_guard_not_failed(m) == m.supervisor_status # "failed"

\* the guard of line 188
merge_calls_guard(m) == m.supervisor_status = "summarizing"

\* the merge leaving the hold stream and its handle alone
merge_calls_moved_keeps_hold(m) ==
    [m EXCEPT !.output_audio = TRUE, !.goodbyes = @ + 1]

\* the goodbye requested with the customer agent's output still disabled
merge_calls_moved_output_off(m) ==
    LET m1 == IF m.hold_audio_handle # None
              THEN [m EXCEPT !.playing = @ \ {m.hold_audio_handle},
                             !.hold_audio_handle = None]
              ELSE m
    IN  [m1 EXCEPT !.goodbyes = @ + 1]

\* lines 202-216: after the move returned, up to the await of say
merge_calls_moved(m) ==
    LET m1 == IF m.hold_audio_handle # None
              THEN [m EXCEPT !.playing = @ \ {m.hold_audio_handle},
                             !.hold_audio_handle = None]
              ELSE m
    IN  [m1 EXCEPT !.output_audio = TRUE, !.goodbyes = @ + 1]

\* lines 225-227: the end of the try block
merge_calls_finish(m) ==
    [m EXCEPT !.merges = @ + 1]

\* the state of the room self.supervisor_room refers to
supervisor_room_state ==
    IF mgr.supervisor_room \in Attempts THEN rooms[mgr.supervisor_room] ELSE "none"

\* a call of merge_calls that skips line 193 and leaves the handler registered
merge_calls_keeps_handler ==
    /\ IF merge_calls_guard(mgr)
       THEN /\ lkapi.move < MaxMerges
            /\ lkapi' = [lkapi EXCEPT !.move = @ + 1,
                                      !.move_request = MoveParticipantRequest(
                                          entry, supervisor_room_state)]
            /\ merge_tasks' = [merge_tasks EXCEPT !["move"] = @ + 1]
       ELSE UNCHANGED <<lkapi, merge_tasks>>
    /\ UNCHANGED <<mongodb, history, prev_convo, entry, mgr, rooms, handlers, customer_room, pc_transfer, failed_tasks,
                   closing>>

\* a call of merge_calls, up to its first await (or its early return)
merge_calls ==
    /\ IF merge_calls_guard(mgr)
       THEN /\ lkapi.move < MaxMerges
            /\ handlers' = handlers \ {mgr.supervisor_room}
            /\ lkapi' = [lkapi EXCEPT !.move = @ + 1,
                                      !.move_request = MoveParticipantRequest(
                                          entry, supervisor_room_state)]
            /\ merge_tasks' = [merge_tasks EXCEPT !["move"] = @ + 1]
       ELSE UNCHANGED <<handlers, lkapi, merge_tasks>>
    /\ UNCHANGED <<mongodb, history, prev_convo, entry, mgr, rooms, customer_room, pc_transfer, failed_tasks, closing>>

\* the except clause of lines 228-230, taken from the await `at`
merge_calls_raised(at) ==
    /\ merge_tasks[at] > 0
    /\ mgr' = set_supervisor_failed(mgr)
    /\ closing' = closing + Suspends(mgr)
    /\ merge_tasks' = [merge_tasks EXCEPT ![at] = @ - 1]
    /\ UNCHANGED <<mongodb, history, prev_convo, entry, rooms, handlers, customer_room, pc_transfer, failed_tasks, lkapi>>

\* line 194 returned: lines 202-216
merge_calls_move_ok ==
    /\ merge_tasks["move"] > 0
    /\ mgr' = merge_calls_moved(mgr)
    /\ customer_room' = [customer_room EXCEPT !.handler = TRUE]
    /\ merge_tasks' = [merge_tasks EXCEPT !["move"] = @ - 1, !["say"] = @ + 1]
    /\ UNCHANGED <<mongodb, history, prev_convo, entry, rooms, handlers, pc_transfer, failed_tasks, closing, lkapi>>

\* line 194 raised
merge_calls_move_raised == merge_calls_raised("move")

\* line 216 returned, the goodbye was spoken: line 221
merge_calls_say_ok ==
    /\ merge_tasks["say"] > 0
    /\ merge_tasks' = [merge_tasks EXCEPT !["say"] = @ - 1,
                                           !["customer_aclose"] = @ + 1]
    /\ UNCHANGED <<mongodb, history, prev_convo, entry, mgr, rooms, handlers, customer_room, pc_transfer, failed_tasks,
                   closing, lkapi>>

\* line 216 raised
merge_calls_say_raised == merge_calls_raised("say")

\* line 221 returned: lines 223-227
merge_calls_customer_closed ==
    /\ merge_tasks["customer_aclose"] > 0
    /\ IF mgr.supervisor_session # None
       THEN /\ mgr' = [mgr EXCEPT !.customer_closed = TRUE,
                                  !.sessions[mgr.supervisor_session] = "closed"]
            /\ merge_tasks' = [merge_tasks EXCEPT !["customer_aclose"] = @ - 1,
                                                   !["supervisor_aclose"] = @ + 1]
       ELSE /\ mgr' = merge_calls_finish([mgr EXCEPT !.customer_closed = TRUE])
            /\ merge_tasks' = [merge_tasks EXCEPT !["customer_aclose"] = @ - 1]
    /\ UNCHANGED <<mongodb, history, prev_convo, entry, rooms, handlers, customer_room, pc_transfer, failed_tasks, closing,
                   lkapi>>

\* line 224 returned: lines 225-227
merge_calls_supervisor_closed ==
    /\ merge_tasks["supervisor_aclose"] > 0
    /\ mgr' = merge_calls_finish([mgr EXCEPT !.supervisor_session = None])
    /\ merge_tasks' = [merge_tasks EXCEPT !["supervisor_aclose"] = @ - 1]
    /\ UNCHANGED <<mongodb, history, prev_convo, entry, rooms, handlers, customer_room, pc_transfer, failed_tasks, closing,
                   lkapi>>

----------------------------------------------------------------------------
(* Customer room notifications *)

\* rtc.ParticipantKind of the participant that left: the agent itself, a
\* web participant, a SIP caller (the customer and the supervisor are SIP)
ParticipantKinds == {"agent", "standard", "sip"}

\* the handler deleting the room and staying registered
customer_participant_disconnected_stays_registered(cr, kind) ==
    IF kind = "agent"
    THEN cr
    ELSE [cr EXCEPT !.deleted = @ + 1]

\* lines 163-171: the body of the handler
customer_participant_disconnected(cr, kind) ==
    IF kind = "agent"
    THEN cr
    ELSE [cr EXCEPT !.handler = FALSE, !.deleted = @ + 1]

\* the handler runs only while registered (merge_calls registers it, line 209)
on_customer_participant_disconnected ==
    \E kind \in ParticipantKinds :
        /\ customer_room.handler
        /\ customer_room' = customer_participant_disconnected(customer_room, kind)
        /\ UNCHANGED <<mongodb, history, prev_convo, entry, mgr, rooms, handlers, pc_transfer, merge_tasks, failed_tasks,
                       closing, lkapi>>

----------------------------------------------------------------------------

Next ==
    \/ start_transfer
    \/ start_transfer_connect_ok
    \/ start_transfer_connect_raised
    \/ start_transfer_session_ok
    \/ start_transfer_session_raised
    \/ start_transfer_dial_ok
    \/ start_transfer_dial_raised
    \/ on_supervisor_room_close
    \/ set_supervisor_failed_task
    \/ set_supervisor_failed_closed
    \/ voicemail_detected
    \/ merge_calls
    \/ merge_calls_move_ok
    \/ merge_calls_move_raised
    \/ merge_calls_say_ok
    \/ merge_calls_say_raised
    \/ merge_calls_customer_closed
    \/ merge_calls_supervisor_closed
    \/ on_customer_participant_disconnected

Spec == Init /\ [][Next]_vars

----------------------------------------------------------------------------
(* the transfer up to line 129, over every customer history *)

\* a call in progress whose customer session holds some history
TranscriptInit ==
    /\ SessionManagerInit
    /\ entry = EntrypointDone
    /\ history \in Histories
    /\ prev_convo = Unset
    /\ mongodb = MongoInit

TranscriptNext ==
    \/ start_transfer
    \/ start_transfer_connect_ok

TranscriptSpec == TranscriptInit /\ [][TranscriptNext]_vars

----------------------------------------------------------------------------
(* Steps named by the claims *)

\* some await of start_transfer raised and its except clause ran
StartTransferRaised ==
    \/ start_transfer_connect_raised
    \/ start_transfer_session_raised
    \/ start_transfer_dial_raised

\* some await of merge_calls raised and its except clause ran
MergeCallsRaised ==
    \/ merge_calls_move_raised
    \/ merge_calls_say_raised

\* a merge_calls run reached the end of its try block
MergeCallsCompleted == mgr'.merges = mgr.merges + 1

\* no start_transfer body between its first await and its last
TransferInFlight == pc_transfer # "idle"

\* no merge_calls coroutine is suspended
NoMergeInFlight == \A p \in MergeAwaits : merge_tasks[p] = 0

----------------------------------------------------------------------------
(* C1 *)

\* C1: a start_transfer invoked while customer_status is not "active" is a
\* no-op: the manager's fields, the customer session, the hold stream, the
\* supervisor room and session are unchanged and no request is issued.
C1_StartTransferNoOp ==
    [][(start_transfer /\ mgr.customer_status # "active")
         => UNCHANGED <<mgr, rooms, handlers, lkapi, pc_transfer>>]_vars

\* a start_transfer call arrives while the customer is on hold and the dial is pending
C1_Witness ==
    /\ mgr.customer_status = "escalated"
    /\ pc_transfer = "dial"
    /\ ENABLED start_transfer

----------------------------------------------------------------------------
(* C2 *)

\* C2: a merge_calls invoked while supervisor_status is not "summarizing" is
\* a no-op: no status changes, the supervisor disconnect handler stays
\* registered as it was, no move is requested, the hold handle and the audio
\* flags are unchanged and no session is spoken to or closed.
C2_MergeCallsNoOp ==
    [][(merge_calls /\ mgr.supervisor_status # "summarizing")
         => UNCHANGED <<mgr, handlers, lkapi, customer_room, merge_tasks>>]_vars

\* a merge_calls call arrives while the dial is pending, the handler registered
C2_Witness ==
    /\ mgr.supervisor_status = "inactive"
    /\ mgr.supervisor_room \in handlers
    /\ pc_transfer = "dial"
    /\ ENABLED merge_calls

----------------------------------------------------------------------------
(* C3 *)

\* C3 as claimed: in every reachable state a hold handle is present if and
\* only if customer_status is "escalated" and supervisor_status is "summarizing".
C3_HoldIffEscalatedSummarizing ==
    (mgr.hold_audio_handle # None)
        <=> (mgr.customer_status = "escalated" /\ mgr.supervisor_status = "summarizing")

\* C3 as amended: in every reachable state a hold handle is present only if
\* customer_status is "escalated" and either start_transfer is still between
\* engaging the hold and the return of its dial, or supervisor_status is
\* "summarizing".
C3_HoldOnlyWhileEscalated ==
    (mgr.hold_audio_handle # None)
        => /\ mgr.customer_status = "escalated"
           /\ TransferInFlight \/ mgr.supervisor_status = "summarizing"

\* the hold is playing while the dial is pending and the leg is not yet summarizing
C3_Witness ==
    /\ mgr.hold_audio_handle # None
    /\ mgr.hold_audio_handle \in mgr.playing
    /\ pc_transfer = "dial"
    /\ mgr.supervisor_status = "inactive"

----------------------------------------------------------------------------
(* C4 *)

\* C4: set_supervisor_failed is idempotent: from any reachable state two
\* calls in a row leave the state one call leaves, and the two calls together
\* request exactly one failure notice from the customer session.
C4_SetSupervisorFailedIdempotent ==
    LET once  == set_supervisor_failed_call(mgr)
        twice == set_supervisor_failed_call(once)
    IN  /\ [twice EXCEPT !.notices = 0] = [once EXCEPT !.notices = 0]
        /\ twice.notices = mgr.notices + 1

----------------------------------------------------------------------------
(* C5 *)

\* the dial was answered, no failure routine ever ran (so this is the first
\* attempt) and a merge_calls run completed without raising
HappyPath ==
    /\ mgr.notices = 0
    /\ mgr.merges >= 1

\* C5: after start_transfer succeeded and merge_calls ran all its steps
\* without raising, supervisor_status is "merged" and customer_status is
\* "escalated".
C5_HappyPathMerged ==
    HappyPath => /\ mgr.supervisor_status = "merged"
                 /\ mgr.customer_status = "escalated"

----------------------------------------------------------------------------
(* C6 *)

----------------------------------------------------------------------------
(* C7 *)

\* C7: when an await of start_transfer raises after the guard passed, the
\* failure routine runs (one notice is requested) and the step leaves
\* customer_status "active", supervisor_status "failed" and the hold
\* disengaged; the body is left, and supervisor_status becomes "summarizing"
\* only by the answered dial of a body still in flight.
C7_StartTransferFailure ==
    [][/\ StartTransferRaised
           => /\ mgr'.customer_status = "active"
              /\ mgr'.supervisor_status = "failed"
              /\ mgr'.hold_audio_handle = None
              /\ mgr'.playing = {}
              /\ mgr'.input_audio /\ mgr'.output_audio
              /\ mgr'.notices = mgr.notices + 1
              /\ pc_transfer' = "idle"
       /\ (mgr'.supervisor_status = "summarizing" /\ mgr.supervisor_status # "summarizing")
           => (pc_transfer = "dial" /\ ~StartTransferRaised)]_vars

\* the only attempt ended by an unanswered dial
C7_Witness ==
    /\ mgr.streams = 1
    /\ lkapi.dial = 1
    /\ pc_transfer = "idle"
    /\ mgr.customer_status = "active"
    /\ mgr.supervisor_status = "failed"
    /\ mgr.notices = 1

----------------------------------------------------------------------------
(* C8 *)

\* C8: when the supervisor room disconnects in the state Escalated /
\* Summarizing before any merge_calls, the failure routine started by the
\* handler leaves customer_status "active", supervisor_status "failed", the
\* hold disengaged, the customer audio enabled both ways and one notice
\* requested.
C8_EarlyHangup ==
    [][(/\ set_supervisor_failed_task
        /\ mgr.customer_status = "escalated"
        /\ mgr.supervisor_status = "summarizing"
        /\ lkapi.move = 0
        /\ mgr.notices = 0)
         => /\ mgr'.customer_status = "active"
            /\ mgr'.supervisor_status = "failed"
            /\ mgr'.hold_audio_handle = None
            /\ mgr'.input_audio /\ mgr'.output_audio
            /\ mgr'.notices = 1]_vars

----------------------------------------------------------------------------
(* C9 *)

\* C9: when a step of merge_calls raises, the remaining steps are skipped,
\* the failure routine runs and the step leaves customer_status "active" and
\* supervisor_status "failed".
C9_MidMergeFailure ==
    [][MergeCallsRaised
         => /\ mgr'.notices = mgr.notices + 1
            /\ mgr'.merges = mgr.merges
            /\ mgr'.supervisor_status = "failed"
            /\ mgr'.customer_status = "active"]_vars

----------------------------------------------------------------------------
(* C10 *)

\* C10: for a transfer attempt that failed, whatever failure signals arrive
\* for it, the customer session is asked for the failure notice exactly once.
C10_OneNoticePerFailedAttempt ==
    (mgr.streams = 1 /\ mgr.supervisor_status = "failed") => mgr.notices = 1

----------------------------------------------------------------------------
(* C11 *)

\* C11: in every state where supervisor_status is "failed", no hold stream
\* is playing, the hold handle is absent and the customer session's input
\* and output audio are both enabled.
C11_NoStuckHold ==
    mgr.supervisor_status = "failed"
        => /\ mgr.hold_audio_handle = None
           /\ mgr.playing = {}
           /\ mgr.input_audio /\ mgr.output_audio

----------------------------------------------------------------------------
(* C12 *)

\* C12: supervisor_status becomes "summarizing" only from "inactive"; a
\* start_transfer issued after a failed attempt never moves it from "failed"
\* to "summarizing".
C12_SummarizingOnlyFromInactive ==
    [][(mgr'.supervisor_status = "summarizing"
            /\ mgr.supervisor_status # "summarizing")
         => mgr.supervisor_status = "inactive"]_vars

----------------------------------------------------------------------------
(* C13 *)

\* C13: customer_status is "escalated" only if supervisor_status is
\* "summarizing" or "merged", read at the states where no start_transfer is
\* between its awaits; every step that sets supervisor_status to "failed"
\* leaves customer_status "active".
C13_EscalatedOnlyWhileSummarizingOrMerged ==
    [][/\ (mgr'.customer_status = "escalated" /\ ~TransferInFlight')
            => mgr'.supervisor_status \in {"summarizing", "merged"}
       /\ (mgr'.supervisor_status = "failed" /\ mgr.supervisor_status # "failed")
            => mgr'.customer_status = "active"]_vars

----------------------------------------------------------------------------
(* C14 *)

\* C14: "merged" and "failed" are absorbing: once supervisor_status holds one
\* of them, no step changes it to a different value.
C14_MergedFailedAbsorbing ==
    [][mgr.supervisor_status \in {"merged", "failed"}
         => mgr'.supervisor_status = mgr.supervisor_status]_vars

----------------------------------------------------------------------------
(* C15 *)

\* a run of set_supervisor_failed reached its generate_reply
FailureRoutineRan == mgr'.notices = mgr.notices + 1

\* C15 as stated: once supervisor_status is "merged" or "failed", the
\* customer session and every supervisor session are closed.
C15_TerminalClosesBothSessions ==
    mgr.supervisor_status \in {"merged", "failed"}
        => /\ mgr.customer_closed
           /\ \A a \in Attempts : mgr.sessions[a] \in {"none", "closed"}

\* C15 amended: the step in which set_supervisor_failed sets "failed" closes
\* the supervisor session the manager holds and leaves the customer session
\* open, with its audio enabled for the failure notice; the customer session
\* is closed only by merge_calls after its goodbye.
C15_FailedClosesSupervisorSessionOnly ==
    [][/\ FailureRoutineRan
            => /\ mgr'.supervisor_status = "failed"
               /\ mgr.supervisor_session # None
                    => mgr'.sessions[mgr.supervisor_session] = "closed"
               /\ mgr'.customer_closed = mgr.customer_closed
               /\ mgr'.input_audio /\ mgr'.output_audio
       /\ (mgr'.customer_closed # mgr.customer_closed)
            => (merge_calls_customer_closed /\ mgr.goodbyes >= 1)]_vars

\* a failed leg whose briefing session was closed, the customer session open
C15_Witness ==
    /\ mgr.supervisor_status = "failed"
    /\ mgr.notices = 1
    /\ mgr.sessions[1] = "closed"
    /\ ~mgr.customer_closed
    /\ mgr.input_audio /\ mgr.output_audio

----------------------------------------------------------------------------
(* C16 *)

\* a run of set_supervisor_failed returns: after aclose(), or at once when
\* the manager holds no supervisor session
SetSupervisorFailedCompletes ==
    \/ set_supervisor_failed_closed
    \/ FailureRoutineRan /\ mgr.supervisor_session = None

\* C16: after set_supervisor_failed completes, the supervisor session and
\* the supervisor room, if created, are closed and released: the room is not
\* connected and no disconnect handler is registered on it.
C16_FailureReleasesRoom ==
    [][(SetSupervisorFailedCompletes /\ mgr.supervisor_room # None)
         => /\ mgr'.sessions[mgr.supervisor_room] \in {"none", "closed"}
            /\ rooms'[mgr.supervisor_room] # "connected"
            /\ mgr.supervisor_room \notin handlers']_vars

----------------------------------------------------------------------------
(* C17 *)

\* merge_calls issued its move_participant request
MoveIssued == lkapi'.move = lkapi.move + 1

\* C17: the step of merge_calls that issues the move has already taken the
\* disconnect handler off the supervisor room, and a disconnect of that room
\* after the move was issued creates no set_supervisor_failed task.
C17_DeregisteredBeforeMove ==
    [][/\ MoveIssued => mgr.supervisor_room \notin handlers'
       /\ (/\ lkapi.move > 0
           /\ on_supervisor_room_close
           /\ rooms[mgr.supervisor_room] # rooms'[mgr.supervisor_room])
            => failed_tasks' = failed_tasks]_vars

\* a merge ran to completion, the supervisor room disconnected, no failure
\* routine ran and none is scheduled
C17_Witness ==
    /\ mgr.merges >= 1
    /\ rooms[mgr.supervisor_room] = "disconnected"
    /\ mgr.notices = 0
    /\ failed_tasks = 0

----------------------------------------------------------------------------
(* C18 *)

\* C18: once merge_calls has moved the supervisor into the customer room,
\* the customer session's input audio is never enabled again, whatever step
\* follows the move.
C18_InputStaysMutedAfterMove ==
    [][(mgr.goodbyes >= 1 /\ ~mgr.input_audio) => ~mgr'.input_audio]_vars

----------------------------------------------------------------------------
(* C19 *)

\* C19: within the first transfer attempt, once the failure routine has run
\* supervisor_status is not "summarizing", and before any merge the state is
\* never Escalated/Summarizing with no hold playing.
C19_FailedAttemptStaysFailed ==
    (mgr.streams = 1 /\ lkapi.move = 0)
        => /\ mgr.notices >= 1 => mgr.supervisor_status # "summarizing"
           /\ ~(/\ mgr.customer_status = "escalated"
                /\ mgr.supervisor_status = "summarizing"
                /\ mgr.hold_audio_handle = None)

----------------------------------------------------------------------------
(* C20 *)

\* C20: the voicemail_detected command invoked in Escalated/Summarizing runs
\* the failure routine: supervisor_status becomes "failed", the hold is
\* disengaged and the customer session is asked for the failure notice.
C20_VoicemailRunsFailureRoutine ==
    (/\ mgr.customer_status = "escalated"
     /\ mgr.supervisor_status = "summarizing"
     /\ ENABLED voicemail_detected)
        => LET m == voicemail_detected_call(mgr)
           IN  /\ m.supervisor_status = "failed"
               /\ m.hold_audio_handle = None
               /\ m.notices = mgr.notices + 1

----------------------------------------------------------------------------
(* C21 *)

\* the supervisor leg of the current attempt has asked to connect, reported
\* voicemail, or its room has disconnected
SupervisorActed ==
    /\ mgr.supervisor_room # None
    /\ \/ lkapi.move > 0
       \/ mgr.sessions[mgr.supervisor_room] = "voicemail"
       \/ rooms[mgr.supervisor_room] = "disconnected"

\* the supervisor leg acts for the first time
SupervisorFirstAct ==
    /\ ~SupervisorActed
    /\ (merge_calls \/ voicemail_detected \/ on_supervisor_room_close)

\* every awaited call returns or raises, every scheduled task runs, and the
\* supervisor leg eventually acts
Fairness ==
    /\ WF_vars(start_transfer_connect_ok \/ start_transfer_connect_raised)
    /\ WF_vars(start_transfer_session_ok \/ start_transfer_session_raised)
    /\ WF_vars(start_transfer_dial_ok \/ start_transfer_dial_raised)
    /\ WF_vars(merge_calls_move_ok \/ merge_calls_move_raised)
    /\ WF_vars(merge_calls_say_ok \/ merge_calls_say_raised)
    /\ WF_vars(merge_calls_customer_closed)
    /\ WF_vars(merge_calls_supervisor_closed)
    /\ WF_vars(set_supervisor_failed_task)
    /\ WF_vars(set_supervisor_failed_closed)
    /\ WF_vars(SupervisorFirstAct)

FairSpec == Spec /\ Fairness

\* C21: once start_transfer has put the customer on hold, the system
\* eventually reaches a state with no hold stream playing in which a merge
\* completed or the failure routine ran.
C21_NoStranding ==
    (mgr.hold_audio_handle # None)
        ~> (mgr.playing = {} /\ (mgr.merges >= 1 \/ mgr.notices >= 1))

----------------------------------------------------------------------------
(* C22 *)

\* C22: within one transfer attempt the room connect, the briefing session
\* start, the dial and the participant move are each issued at most once;
\* every move belongs to the one attempt that reached "summarizing".
C22_EachOperationOncePerAttempt ==
    /\ lkapi.connect <= mgr.streams
    /\ lkapi.session_start <= mgr.streams
    /\ lkapi.dial <= mgr.streams
    /\ lkapi.move <= 1

----------------------------------------------------------------------------
(* C23 *)

\* C23: while a transfer is in flight (customer escalated, supervisor room
\* connected, no merge requested), a disconnect of the customer participant
\* is handled: on_customer_participant_disconnected is registered and can
\* run, so that the supervisor session and room can be closed from it.
C23_CustomerDisconnectHandled ==
    (/\ mgr.customer_status = "escalated"
     /\ lkapi.move = 0
     /\ mgr.supervisor_room # None
     /\ rooms[mgr.supervisor_room] = "connected")
        => ENABLED on_customer_participant_disconnected

----------------------------------------------------------------------------
(* C24 *)

\* C24: when the supervisor number or the trunk id is missing, the customer
\* session is never asked to start and the manager is never started: the
\* entrypoint raises before either.
C24_ConfigurationErrorBeforeStart ==
    (~Truthy(entry.SUPERVISOR_PHONE_NUMBER) \/ ~Truthy(entry.SIP_TRUNK_ID))
        => /\ entry.session = "none"
           /\ entry.session_manager \notin {"starting", "started"}

----------------------------------------------------------------------------
(* C25 *)

\* C25: a start_transfer invoked while an earlier one is in flight or has
\* succeeded is rejected by the guard: it starts no hold stream, issues no
\* request and moves nothing; at most one hold stream plays, and a body in
\* flight always finds customer_status "escalated".
C25_DuplicateTransferRejected ==
    [][/\ (start_transfer
             /\ (TransferInFlight \/ mgr.supervisor_status = "summarizing"))
            => /\ mgr' = mgr
               /\ lkapi' = lkapi
               /\ rooms' = rooms
               /\ pc_transfer' = pc_transfer
       /\ Cardinality(mgr'.playing) <= 1
       /\ TransferInFlight' => mgr'.customer_status = "escalated"]_vars

\* a start_transfer call arrives after the first one succeeded: one hold
\* stream plays, one dial was issued
C25_Witness ==
    /\ mgr.supervisor_status = "summarizing"
    /\ pc_transfer = "idle"
    /\ mgr.playing = {1}
    /\ lkapi.dial = 1
    /\ ENABLED start_transfer

----------------------------------------------------------------------------
(* C26 *)

\* C26: start_transfer proceeds in this order: customer_status "escalated"
\* and the hold engaged with the room connect issued; the disconnect handler
\* registered on the connected room before the briefing session start is
\* issued; the dial issued only after the session start returned; and
\* supervisor_status set to "summarizing" only by the return of the dial.
C26_StartTransferOrder ==
    [][/\ (mgr'.streams = mgr.streams + 1)
            => /\ mgr'.customer_status = "escalated"
               /\ mgr'.hold_audio_handle \in mgr'.playing
               /\ rooms'[mgr'.supervisor_room] = "connecting"
               /\ mgr'.supervisor_room \notin handlers'
               /\ mgr'.sessions[mgr'.supervisor_room] = "none"
               /\ lkapi'.connect = lkapi.connect + 1
               /\ lkapi'.session_start = lkapi.session_start
               /\ lkapi'.dial = lkapi.dial
       /\ (lkapi'.session_start = lkapi.session_start + 1)
            => /\ pc_transfer = "connect"
               /\ rooms'[mgr.supervisor_room] = "connected"
               /\ mgr.supervisor_room \in handlers'
               /\ lkapi'.session_start <= lkapi.connect
               /\ lkapi'.dial = lkapi.dial
       /\ (lkapi'.dial = lkapi.dial + 1)
            => /\ pc_transfer = "session_start"
               /\ mgr.supervisor_room \in handlers
               /\ lkapi'.dial <= lkapi.session_start
               /\ mgr'.supervisor_status # "summarizing"
       /\ (mgr'.supervisor_status = "summarizing"
             /\ mgr.supervisor_status # "summarizing")
            => /\ start_transfer_dial_ok
               /\ pc_transfer = "dial"
               /\ lkapi.dial >= 1]_vars

\* a first start_transfer ran to its end with nothing failing
C26_Witness ==
    /\ mgr.supervisor_status = "summarizing"
    /\ mgr.customer_status = "escalated"
    /\ mgr.notices = 0
    /\ mgr.hold_audio_handle = 1
    /\ handlers = {1}
    /\ rooms[1] = "connected"
    /\ lkapi.connect = 1 /\ lkapi.session_start = 1 /\ lkapi.dial = 1
    /\ lkapi.move = 0

----------------------------------------------------------------------------
(* C27 *)

\* C27: in merge_calls the step that requests the goodbye has stopped the
\* hold stream, cleared its handle and enabled the customer agent's output;
\* the customer session is closed only after the goodbye completed, and the
\* supervisor session is closed by the merge only after the customer
\* session's close returned.
C27_MergeOrder ==
    [][/\ (mgr'.goodbyes = mgr.goodbyes + 1)
            => /\ mgr'.hold_audio_handle = None
               /\ mgr.hold_audio_handle \notin mgr'.playing
               /\ mgr'.output_audio
               /\ mgr'.customer_closed = mgr.customer_closed
               /\ mgr'.sessions = mgr.sessions
       /\ (merge_tasks'["customer_aclose"] = merge_tasks["customer_aclose"] + 1)
            => /\ merge_calls_say_ok
               /\ mgr.goodbyes >= 1
               /\ mgr' = mgr
       /\ (mgr'.customer_closed /\ ~mgr.customer_closed)
            => merge_tasks["customer_aclose"] > 0
       /\ (merge_tasks'["supervisor_aclose"] = merge_tasks["supervisor_aclose"] + 1)
            => /\ mgr'.customer_closed
               /\ mgr'.sessions[mgr.supervisor_session] = "closed"
       /\ MergeCallsCompleted
            => /\ mgr'.customer_closed
               /\ mgr'.supervisor_session = None]_vars

\* a merge ran to its end: goodbye spoken with output enabled and input
\* disabled, the hold stopped, the customer session closed
C27_Witness ==
    /\ mgr.merges = 1
    /\ mgr.goodbyes = 1
    /\ mgr.customer_closed
    /\ mgr.playing = {}
    /\ mgr.output_audio /\ ~mgr.input_audio
    /\ mgr.supervisor_session = None

----------------------------------------------------------------------------
(* C28 *)

\* C28: a stop_hold called while no hold handle is held changes nothing: no
\* stream is stopped, the handle stays absent and the customer session's
\* input and output audio flags keep their values.  The calls are those of
\* the failure routine.
C28_StopHoldWithoutHandleNoOp ==
    [][(FailureRoutineRan /\ mgr.hold_audio_handle = None)
         => /\ stop_hold(mgr) = mgr
            /\ mgr'.hold_audio_handle = None
            /\ mgr'.playing = mgr.playing
            /\ mgr'.input_audio = mgr.input_audio
            /\ mgr'.output_audio = mgr.output_audio]_vars

----------------------------------------------------------------------------
(* C29 *)

\* C29: start_hold disables the customer session's input and output audio and
\* stores the handle of a new stream that is playing; the stop_hold that
\* follows stops that stream, clears the handle and leaves input and output
\* enabled, and a further stop_hold stops nothing.
C29_HoldRoundTrip ==
    [][/\ (mgr'.streams = mgr.streams + 1)
            => LET s == stop_hold(mgr')
               IN  /\ ~mgr'.input_audio /\ ~mgr'.output_audio
                   /\ mgr'.hold_audio_handle = mgr'.streams
                   /\ mgr'.hold_audio_handle \notin mgr.playing
                   /\ mgr'.playing = mgr.playing \cup {mgr'.hold_audio_handle}
                   /\ s.hold_audio_handle = None
                   /\ s.playing = mgr.playing
                   /\ s.input_audio /\ s.output_audio
                   /\ stop_hold(s) = s
       /\ (FailureRoutineRan /\ mgr.hold_audio_handle # None)
            => /\ mgr'.hold_audio_handle = None
               /\ mgr'.playing = mgr.playing \ {mgr.hold_audio_handle}
               /\ mgr'.input_audio /\ mgr'.output_audio]_vars

\* a hold was started once and stopped by the failure routine
C29_Witness ==
    /\ mgr.streams = 1
    /\ mgr.notices >= 1
    /\ lkapi.move = 0
    /\ mgr.hold_audio_handle = None
    /\ mgr.playing = {}
    /\ mgr.input_audio /\ mgr.output_audio

----------------------------------------------------------------------------
(* C30 *)

----------------------------------------------------------------------------
(* C33 *)

\* C33: start_hold is never executed while a hold handle is held: whenever
\* start_transfer would pass its guard no handle is held; at most one hold
\* stream is playing, and a stream that is playing is the one the handle
\* refers to, so no handle was overwritten or dropped with its stream
\* still playing.
C33_AtMostOneHold ==
    /\ start_transfer_guard(mgr) => mgr.hold_audio_handle = None
    /\ Cardinality(mgr.playing) <= 1
    /\ mgr.playing \subseteq {mgr.hold_audio_handle}
    /\ mgr.hold_audio_handle # None => mgr.hold_audio_handle \in mgr.playing

\* a second hold stream plays, the first one stopped, its handle replaced
C33_Witness ==
    /\ mgr.streams = 2
    /\ mgr.hold_audio_handle = 2
    /\ mgr.playing = {2}

----------------------------------------------------------------------------
(* C34 *)

\* C34: customer_status only ever holds "active" or "escalated"; "passive"
\* is never assigned.
C34_NeverPassive ==
    mgr.customer_status \in {"active", "escalated"}

\* customer_status was assigned at line 89, at line 157 and at line 89 again
C34_Witness ==
    /\ mgr.customer_status = "escalated"
    /\ mgr.streams = 2
    /\ mgr.notices >= 1
    /\ pc_transfer = "connect"

----------------------------------------------------------------------------
\* C31: the move request issued by merge_calls names the participant identity
\* that start_transfer dialed, takes it from the room it was dialed into (the
\* customer room's name plus "-supervisor") and has the customer room as its
\* destination.
C31_MoveMatchesDial ==
    lkapi.move > 0 =>
        /\ lkapi.dial > 0
        /\ lkapi.move_request.identity = lkapi.sip_request.participant_identity
        /\ lkapi.move_request.room = lkapi.sip_request.room_name
        /\ lkapi.move_request.room = entry.room \o "-supervisor"
        /\ lkapi.move_request.destination_room = entry.room
        /\ lkapi.move_request.identity = "supervisor-sip"

\* a second attempt was dialed and its participant moved
C31_Witness ==
    /\ lkapi.dial = 2
    /\ lkapi.move >= 1
    /\ lkapi.move_request.room = "call-1-supervisor"
    /\ mgr.supervisor_room = 2

----------------------------------------------------------------------------
\* a turn of the conversation: a message that is neither empty nor an
\* instruction (tool calls are not messages)
IsTurn(item) ==
    /\ item.type = "message"
    /\ item.role \notin {"system", "developer"}
    /\ item.content # <<>>

\* the turns of a history, in their original order
Turns(items) == SelectSeq(items, IsTurn)

\* one line per turn: its tag, its text, a newline
RECURSIVE TaggedLines(_)
TaggedLines(turns) ==
    IF turns = <<>> THEN ""
    ELSE (IF turns[1].role = "user" THEN "Customer: " ELSE "Assistant: ")
         \o turns[1].content[1] \o "\n" \o TaggedLines(Tail(turns))

\* C32: the transcript seeded into the briefing session is exactly the
\* non-empty, non-instruction, non-tool-call turns of the customer history,
\* in their original order, each tagged "Customer:" when its role is "user"
\* and "Assistant:" otherwise; excluded items contribute no text.
C32_TranscriptIsTheTurns ==
    prev_convo # Unset => prev_convo = TaggedLines(Turns(history))

\* a history with a tool call between two turns, after the agent was built
C32_Witness ==
    /\ Len(history) = 3
    /\ history[1].role = "user" /\ history[1].content # <<>>
    /\ history[2].type = "function_call"
    /\ history[3].role = "assistant" /\ history[3].content # <<>>
    /\ prev_convo = "Customer: I am locked out\nAssistant: Let me check\n"

----------------------------------------------------------------------------
\* C35: OutboundAgent.on_enter requests exactly one opening reply on each of
\* its paths: without a phone number and when no contact comes back (also
\* because the lookup failed) the standard greeting, with a contact the
\* personalized one.
C35_OneOpeningReply ==
    /\ ~entry.entered => entry.replies = 0
    /\ entry.entered =>
        /\ entry.replies = 1
        /\ entry.reply_line \in {327, 330, 338}
        /\ ~Truthy(entry.phone_number) <=> entry.reply_line = 338
        /\ entry.reply_line = 327 <=> entry.greeting # "standard"
        /\ entry.reply_line = 327 => mongodb._mongo_client # None

\* the contact lookup failed on its connection and the standard greeting
\* was requested once
C35_Witness ==
    /\ entry.entered
    /\ Truthy(entry.phone_number)
    /\ mongodb.raised = "ConnectionFailure"
    /\ entry.replies = 1
    /\ entry.reply_line = 330
    /\ entry.pc = "done"

----------------------------------------------------------------------------
\* C36: get_mongodb_client caches and returns a client only after its ping
\* succeeded: after a call that raised because the ping failed no client is
\* left cached, and a client that is cached or returned is one whose test
\* succeeded.
C36_OnlyTestedClientCached ==
    /\ mongodb._mongo_client # None => mongodb._mongo_client \in mongodb.tested
    /\ mongodb.returned # None => mongodb.returned \in mongodb.tested
    /\ mongodb.returned # None => mongodb.returned = mongodb._mongo_client
                                    \/ mongodb.returned \in mongodb.closed

====
